---- MODULE Spec2Model ----
(***************************************************************************)
(* A model of the minitrace-macro `trace` pipeline:                        *)
(*   parse (attribute options)  ->  analyze (one TracedItem per function)  *)
(*   ->  lower (one Quote per TracedItem),                                 *)
(* followed by an abstract execution of the emitted function bodies.       *)
(*                                                                         *)
(* Syntax trees are records with a `kind` field; Option<T> is a sequence   *)
(* of length 0 (None) or 1 (Some).                                         *)
(***************************************************************************)
EXTENDS Naturals, Sequences, FiniteSets, TLC

VARIABLES
    stage,      \* position in the pipeline
    args,       \* the attribute's option list, as written
    parsed,     \* result of Trace::parse: [ok, trace, err]
    items,      \* the function handed to analyze
    models,     \* Models<Model>: the TracedItems analyze produced
    lowered,    \* result of lower: [panicked, msg, quotes]
    run,        \* execution of one emitted function
    resolver,   \* runs of the lifetime collector over one signature
    rewrite     \* transform_sig applied to one asynchronous signature

vars == <<stage, args, parsed, items, models, lowered, run, resolver, rewrite>>

\* --------------------------------------------------------------- bounds

\* Longest option list offered to the parser.
MaxPairs == 2
\* Most suspensions of one future before it completes.
MaxPolls == 2
\* Most typed parameters of a signature handed to the lifetime collector.
MaxParams == 2
\* Most successive runs of the lifetime collector over one signature.
MaxRuns == 2

\* ------------------------------------------------------------- helpers

None == <<>>
Some(v) == <<v>>
IsSome(o) == Len(o) = 1
IsNone(o) == Len(o) = 0

RECURSIVE Concat(_)
Concat(ss) == IF Len(ss) = 0 THEN <<>> ELSE Head(ss) \o Concat(Tail(ss))

SeqsUpTo(S, n) == UNION {[1..k -> S] : k \in 0..n}

\* ------------------------------------------------- parse.rs: the options

\* "__default": the in-band marker for an unresolved name.
DefaultName == "__default"

LitStr(s) == [kind |-> "Str", s |-> s]
LitBool(b) == [kind |-> "Bool", b |-> b]

TraceDefault ==
    [default |-> TRUE,
     name |-> DefaultName,
     validated |-> FALSE,
     enter_on_poll |-> FALSE,
     scope |-> Some("Local"),
     parent |-> Some(DefaultName),
     recorder |-> Some("span"),
     recurse |-> Some(FALSE),
     root |-> Some(FALSE),
     variables |-> Some(<<>>),
     async_trait |-> Some(FALSE),
     async_fn |-> Some(FALSE)]

\* The arity test of Trace::parse is arg_n > 3.
ParseArityLimit == 3

\* Error messages are the source's, without the backquotes around option names.
ParseErr(msg) == [ok |-> FALSE, trace |-> TraceDefault, err |-> msg]
\* Variant: a result that is Ok but whose model is not marked validated.
ParseOk_unvalidated(t) ==
    [ok |-> TRUE, trace |-> [t EXCEPT !.validated = FALSE], err |-> ""]

ParseOk(t) == [ok |-> TRUE, trace |-> t, err |-> ""]

TooManyArgumentsMsg ==
    "Too many arguments. This attribute takes up to two (2) arguments"

\* Variant: the loop tests the kind of a value before it tests whether the
\* key was already given.
RECURSIVE ParseLoop_kind_first(_, _)
ParseLoop_kind_first(kvs, st) ==
    IF Len(kvs) = 0 \/ st.err # "" THEN st
    ELSE LET kv == Head(kvs) IN
         IF kv.path = "enter_on_poll" THEN
            IF kv.lit.kind # "Bool"
            THEN [st EXCEPT !.err = "enter_on_poll value should be an boolean"]
            ELSE IF IsSome(st.enter_on_poll)
            THEN [st EXCEPT !.err = "enter_on_poll provided twice"]
            ELSE ParseLoop_kind_first(Tail(kvs),
                                      [st EXCEPT !.enter_on_poll = Some(kv.lit.b)])
         ELSE IF kv.path = "name" THEN
            IF kv.lit.kind # "Str"
            THEN [st EXCEPT !.name_set = TRUE, !.err = "name value should be a string"]
            ELSE IF IsSome(st.name)
            THEN [st EXCEPT !.name_set = TRUE, !.err = "name provided twice"]
            ELSE ParseLoop_kind_first(Tail(kvs),
                                      [st EXCEPT !.name_set = TRUE,
                                                 !.name = Some(kv.lit.s)])
         ELSE [st EXCEPT !.err = "unknown option"]

\* The "for kv in parsed" loop: st = [enter_on_poll, name, name_set, err].
RECURSIVE ParseLoop(_, _)
ParseLoop(kvs, st) ==
    IF Len(kvs) = 0 \/ st.err # "" THEN st
    ELSE LET kv == Head(kvs) IN
         IF kv.path = "enter_on_poll" THEN
            IF IsSome(st.enter_on_poll)
            THEN [st EXCEPT !.err = "enter_on_poll provided twice"]
            ELSE IF kv.lit.kind = "Bool"
            THEN ParseLoop(Tail(kvs), [st EXCEPT !.enter_on_poll = Some(kv.lit.b)])
            ELSE [st EXCEPT !.err = "enter_on_poll value should be an boolean"]
         ELSE IF kv.path = "name" THEN
            IF IsSome(st.name)
            THEN [st EXCEPT !.name_set = TRUE, !.err = "name provided twice"]
            ELSE IF kv.lit.kind = "Str"
            THEN ParseLoop(Tail(kvs), [st EXCEPT !.name_set = TRUE, !.name = Some(kv.lit.s)])
            ELSE [st EXCEPT !.name_set = TRUE, !.err = "name value should be a string"]
         ELSE [st EXCEPT !.err = "unknown option"]

\* Variant: the arity test rejects every list of more than two pairs.
Parse_arity_two(kvs) ==
    IF Len(kvs) > ParseArityLimit - 1
    THEN ParseErr(TooManyArgumentsMsg)
    ELSE LET st0 == [enter_on_poll |-> None, name |-> None, name_set |-> FALSE, err |-> ""]
             st == ParseLoop(kvs, st0)
             name == IF st.name_set THEN st.name ELSE Some(DefaultName)
         IN  IF st.err # "" THEN ParseErr(st.err)
             ELSE IF IsSome(st.enter_on_poll) /\ IsSome(name)
             THEN ParseOk([TraceDefault EXCEPT !.default = FALSE,
                                               !.enter_on_poll = st.enter_on_poll[1],
                                               !.name = name[1],
                                               !.validated = TRUE])
             ELSE IF IsNone(st.enter_on_poll) /\ IsNone(name)
             THEN ParseErr("missing both enter_on_poll and name")
             ELSE IF IsNone(st.enter_on_poll)
             THEN ParseOk([TraceDefault EXCEPT !.default = FALSE,
                                               !.name = name[1],
                                               !.validated = TRUE])
             ELSE ParseOk([TraceDefault EXCEPT !.default = FALSE,
                                               !.enter_on_poll = st.enter_on_poll[1],
                                               !.name = DefaultName,
                                               !.validated = TRUE])

Parse(kvs) ==
    IF Len(kvs) > ParseArityLimit
    THEN ParseErr(TooManyArgumentsMsg)
    ELSE LET st0 == [enter_on_poll |-> None, name |-> None, name_set |-> FALSE, err |-> ""]
             st == ParseLoop(kvs, st0)
             name == IF st.name_set THEN st.name ELSE Some(DefaultName)
         IN  IF st.err # "" THEN ParseErr(st.err)
             ELSE IF IsSome(st.enter_on_poll) /\ IsSome(name)
             THEN ParseOk([TraceDefault EXCEPT !.default = FALSE,
                                               !.enter_on_poll = st.enter_on_poll[1],
                                               !.name = name[1],
                                               !.validated = TRUE])
             ELSE IF IsNone(st.enter_on_poll) /\ IsNone(name)
             THEN ParseErr("missing both enter_on_poll and name")
             ELSE IF IsNone(st.enter_on_poll)
             THEN ParseOk([TraceDefault EXCEPT !.default = FALSE,
                                               !.name = name[1],
                                               !.validated = TRUE])
             ELSE ParseOk([TraceDefault EXCEPT !.default = FALSE,
                                               !.enter_on_poll = st.enter_on_poll[1],
                                               !.name = DefaultName,
                                               !.validated = TRUE])

\* Option lists offered to the parser.
OptionKeys == {"name", "enter_on_poll", "scope"}
OptionValues == {LitStr("a"), LitStr(DefaultName), LitBool(TRUE), LitBool(FALSE)}
MetaNameValues == [path : OptionKeys, lit : OptionValues]
OptionLists == SeqsUpTo(MetaNameValues, MaxPairs)

\* ------------------------------------------------ syntax trees (syn 1.x)

\* Expressions.
EPath(segs) == [kind |-> "Path", path |-> segs]
ECall(f, as) == [kind |-> "Call", func |-> f, args |-> as]
EAsync(cap, blk) == [kind |-> "Async", attrs |-> <<>>, capture |-> cap, block |-> blk]
ELit == [kind |-> "Lit"]
EReturn == [kind |-> "Return"]
ETry == [kind |-> "Try"]
EAwait == [kind |-> "Await"]

\* Statements: syn::Stmt::{Local, Item, Expr, Semi}.
SLocal(id) == [kind |-> "Local", ident |-> id]
SExpr(e) == [kind |-> "Expr", expr |-> e]
SSemi(e) == [kind |-> "Semi", expr |-> e]
SItem(it) == [kind |-> "Item", item |-> it]
IFn(f) == [kind |-> "Fn", fn |-> f]
IMod(id, its) == [kind |-> "Mod", ident |-> id, items |-> its]
Block(stmts) == [stmts |-> stmts]

\* Types, patterns and arguments of a signature.
TPath(id, gargs) == [kind |-> "Path", ident |-> id, args |-> gargs]
TRef(lt, m, elem) == [kind |-> "Reference", lifetime |-> lt, mutability |-> m, elem |-> elem]
GLifetime(lt) == [kind |-> "Lifetime", lifetime |-> lt]
GType(ty) == [kind |-> "Type", ty |-> ty]
PIdent(id, byref, m) == [kind |-> "Ident", ident |-> id, by_ref |-> byref, mutability |-> m]
PTuple(ps) == [kind |-> "Tuple", elems |-> ps]
Receiver(ref, m) == [kind |-> "Receiver", reference |-> ref, mutability |-> m]
Typed(pat, ty) == [kind |-> "Typed", pat |-> pat, ty |-> ty]
GPType(id) == [kind |-> "Type", ident |-> id]
GPLifetime(lt) == [kind |-> "Lifetime", lifetime |-> lt]
GPConst(id) == [kind |-> "Const", ident |-> id]
RetDefault == [kind |-> "Default"]
RetType(ty) == [kind |-> "Type", ty |-> ty]
Pred(subject, bounds) == [bounded |-> subject, bounds |-> bounds]

Sig(asy, id, gparams, wh, inputs, out) ==
    [constness |-> FALSE, asyncness |-> asy, unsafety |-> FALSE, abi |-> None,
     ident |-> id,
     generics |-> [params |-> gparams, where_clause |-> wh],
     inputs |-> inputs,
     output |-> out]

ItemFn(attrs, sig, blk) == [attrs |-> attrs, vis |-> "Inherited", sig |-> sig, block |-> blk]

\* ------------------------------------------------------------ analyze.rs

\* FnVisitor: every function item of the tree, the enclosing one first.  The
\* default syn traversal it delegates to walks statements, nested items of
\* every kind, call operands and async blocks.
RECURSIVE VisitItemFn(_), VisitItem(_), VisitItems(_), VisitStmts(_), VisitExpr(_), VisitExprs(_)
VisitExpr(e) ==
    CASE e.kind = "Call" -> VisitExpr(e.func) \o VisitExprs(e.args)
      [] e.kind = "Async" -> VisitStmts(e.block.stmts)
      [] OTHER -> <<>>
VisitExprs(es) == IF Len(es) = 0 THEN <<>> ELSE VisitExpr(Head(es)) \o VisitExprs(Tail(es))
\* A visitor that does not enter nested modules: a wrong variant, against
\* which AnalyzeYieldsEveryFnInside is tested.
VisitItem_fn_only(it) == IF it.kind = "Fn" THEN VisitItemFn(it.fn) ELSE <<>>
VisitItem(it) == IF it.kind = "Fn" THEN VisitItemFn(it.fn) ELSE VisitItems(it.items)
VisitItems(its) == IF Len(its) = 0 THEN <<>> ELSE VisitItem(Head(its)) \o VisitItems(Tail(its))
VisitStmts(ss) ==
    IF Len(ss) = 0 THEN <<>>
    ELSE (LET st == Head(ss) IN
          CASE st.kind = "Item" -> VisitItem(st.item)
            [] st.kind \in {"Expr", "Semi"} -> VisitExpr(st.expr)
            [] OTHER -> <<>>) \o VisitStmts(Tail(ss))
VisitItemFn(f) == <<f>> \o VisitStmts(f.block.stmts)

TracedItemDefault ==
    [name |-> DefaultName,
     scope |-> "Local",
     enter_on_poll |-> FALSE,
     parent |-> DefaultName,
     recorder |-> "span",
     recurse |-> FALSE,
     root |-> FALSE,
     variables |-> <<>>,
     async_trait |-> FALSE,
     async_fn |-> FALSE,
     item_fn |-> ItemFn(<<>>, Sig(FALSE, DefaultName, <<>>, None, <<>>, RetDefault), Block(<<>>))]

\* The loop body of analyze without the resolution of the sentinel: a wrong
\* variant, against which SpanNamesFollowIdentifiers is tested.
TracedItemOf_keeping_sentinel(trace, f) ==
    [TracedItemDefault EXCEPT !.name = trace.name,
                              !.enter_on_poll = trace.enter_on_poll,
                              !.item_fn = f]

\* The body of analyze's loop: one function merged with the trace settings.
TracedItemOf(trace, f) ==
    IF /\ IsSome(trace.scope) /\ IsSome(trace.parent) /\ IsSome(trace.recorder)
       /\ IsSome(trace.recurse) /\ IsSome(trace.root) /\ IsSome(trace.variables)
       /\ IsSome(trace.async_trait) /\ IsSome(trace.async_fn)
    THEN [name |-> IF trace.name = DefaultName THEN f.sig.ident ELSE trace.name,
          scope |-> trace.scope[1],
          enter_on_poll |-> trace.enter_on_poll,
          parent |-> trace.parent[1],
          recorder |-> trace.recorder[1],
          recurse |-> trace.recurse[1],
          root |-> trace.root[1],
          variables |-> trace.variables[1],
          async_trait |-> trace.async_trait[1],
          async_fn |-> trace.async_fn[1],
          item_fn |-> f]
    ELSE TracedItemDefault

Analyze(trace, file) ==
    LET fs == VisitItems(file) IN [i \in 1..Len(fs) |-> TracedItemOf(trace, fs[i])]

\* ---------------------------------------------------- lower/async_trait.rs

\* The text of an identifier, as `write!(res, "{}", ident)` produces it: the
\* characters of the identifiers that occur in call paths, any other
\* identifier as one indivisible symbol.
IdentText(id) ==
    CASE id = "Box" -> <<"B", "o", "x">>
      [] id = "MyBox" -> <<"M", "y", "B", "o", "x">>
      [] id = "pin" -> <<"p", "i", "n">>
      [] id = "new" -> <<"n", "e", "w">>
      [] OTHER -> <<id>>

RECURSIVE path_to_string(_)
path_to_string(path) ==
    IF Len(path) = 0 THEN <<>>
    ELSE IF Len(path) = 1 THEN IdentText(path[1])
    ELSE IdentText(path[1]) \o <<":", ":">> \o path_to_string(Tail(path))

ends_with(text, suffix) ==
    /\ Len(text) >= Len(suffix)
    /\ SubSeq(text, Len(text) - Len(suffix) + 1, Len(text)) = suffix

BoxPinText == <<"B", "o", "x", ":", ":", "p", "i", "n">>

\* Index of the last Stmt::Expr of the block, 0 when there is none.
LastExprStmt(stmts) ==
    LET idx == {i \in 1..Len(stmts) : stmts[i].kind = "Expr"}
    IN  IF idx = {} THEN 0 ELSE CHOOSE i \in idx : \A j \in idx : j <= i

\* Index of the first async function item declared in the block whose
\* identifier is func_name, 0 when there is none.
InsideFun(stmts, func_name) ==
    LET idx == {i \in 1..Len(stmts) :
                    /\ stmts[i].kind = "Item"
                    /\ stmts[i].item.kind = "Fn"
                    /\ stmts[i].item.fn.sig.asyncness
                    /\ IdentText(stmts[i].item.fn.sig.ident) = func_name}
    IN  IF idx = {} THEN 0 ELSE CHOOSE i \in idx : \A j \in idx : i <= j

\* get_async_trait_info accepting an async block without `move`: a wrong
\* variant, against which BoxPinAsyncMoveIsDesugared is tested.
get_async_trait_info_any_capture(block, block_is_async) ==
    IF block_is_async THEN None
    ELSE LET last == LastExprStmt(block.stmts) IN
    IF last = 0 THEN None
    ELSE LET last_expr == block.stmts[last].expr IN
    IF last_expr.kind # "Call" THEN None
    ELSE IF last_expr.func.kind # "Path" THEN None
    ELSE IF ~ends_with(path_to_string(last_expr.func.path), BoxPinText) THEN None
    ELSE IF Len(last_expr.args) = 0 THEN None
    ELSE LET arg == last_expr.args[1] IN
    IF arg.kind = "Async"
    THEN Some([kind |-> "Async", source_stmt |-> last, async_expr |-> arg])
    ELSE None

\* get_async_trait_info without its test of block_is_async: a wrong variant,
\* against which AsyncFnIsNeverDesugared is tested.
get_async_trait_info_ignoring_async(block, block_is_async) ==
    LET last == LastExprStmt(block.stmts) IN
    IF last = 0 THEN None
    ELSE LET last_expr == block.stmts[last].expr IN
    IF last_expr.kind # "Call" THEN None
    ELSE IF last_expr.func.kind # "Path" THEN None
    ELSE IF ~ends_with(path_to_string(last_expr.func.path), BoxPinText) THEN None
    ELSE IF Len(last_expr.args) = 0 THEN None
    ELSE LET arg == last_expr.args[1] IN
    IF arg.kind = "Async" /\ arg.capture
    THEN Some([kind |-> "Async", source_stmt |-> last, async_expr |-> arg])
    ELSE None

get_async_trait_info(block, block_is_async) ==
    IF block_is_async THEN None
    ELSE LET last == LastExprStmt(block.stmts) IN
    IF last = 0 THEN None
    ELSE LET last_expr == block.stmts[last].expr IN
    IF last_expr.kind # "Call" THEN None
    ELSE IF last_expr.func.kind # "Path" THEN None
    ELSE IF ~ends_with(path_to_string(last_expr.func.path), BoxPinText) THEN None
    ELSE IF Len(last_expr.args) = 0 THEN None
    ELSE LET arg == last_expr.args[1] IN
    IF arg.kind = "Async"
    THEN IF ~arg.capture THEN None
         ELSE Some([kind |-> "Async", source_stmt |-> last, async_expr |-> arg])
    ELSE IF arg.kind # "Call" THEN None
    ELSE IF arg.func.kind # "Path" THEN None
    ELSE LET decl == InsideFun(block.stmts, path_to_string(arg.func.path)) IN
    IF decl = 0 THEN None
    ELSE Some([kind |-> "Function", source_stmt |-> decl, fn |-> block.stmts[decl].item.fn])

\* ----------------------------------------------------------- lower/block.rs

EnterOnPollOnSyncMsg == "enter_on_poll can not be applied on non-async function"

\* The runtime functions the emitted code calls.
LocalEnter == "minitrace::local::LocalSpan::enter_with_local_parent"
SpanEnter == "minitrace::Span::enter_with_local_parent"
InSpanFn == "minitrace::future::FutureExt::in_span"
EnterOnPollFn == "minitrace::future::FutureExt::enter_on_poll"

\* Emitted code, as a sequence of token groups.
TLetGuard(event) ==
    [kind |-> "Let", binder |-> "__guard",
     init |-> [call |-> LocalEnter, event |-> event]]
TBlock(block) == [kind |-> "Block", block |-> block]
TAsyncMove(block) == [kind |-> "Async", capture |-> TRUE, tokens |-> <<TBlock(block)>>]
TEnterOnPoll(block, event) ==
    [kind |-> "Call", call |-> EnterOnPollFn,
     fut |-> TAsyncMove(block), event |-> event]
TInSpan(block, event) ==
    [kind |-> "Call", call |-> InSpanFn,
     fut |-> TAsyncMove(block),
     span |-> [call |-> SpanEnter, event |-> event]]
TCompileError(msg) == [kind |-> "CompileError", msg |-> msg]

\* crate::token_stream_with_error: the tokens, then the error as a
\* compile_error! invocation.
token_stream_with_error(tokens, e) == tokens \o <<TCompileError(e)>>

\* gen_block without the guard in the synchronous case: a wrong variant,
\* against which SyncGuardThenBody is tested.
gen_block_no_guard(block, async_context, traced_item) ==
    IF async_context
    THEN IF traced_item.enter_on_poll
         THEN <<TEnterOnPoll(block, traced_item.name)>>
         ELSE <<TInSpan(block, traced_item.name)>>
    ELSE IF traced_item.enter_on_poll
         THEN token_stream_with_error(<<TBlock(block)>>, EnterOnPollOnSyncMsg)
         ELSE <<TBlock(block)>>

\* gen_block with the two future wrappers exchanged: a wrong variant, against
\* which NativeAsyncWrapper is tested.
gen_block_swapped(block, async_context, traced_item) ==
    IF async_context
    THEN IF traced_item.enter_on_poll
         THEN <<TInSpan(block, traced_item.name)>>
         ELSE <<TEnterOnPoll(block, traced_item.name)>>
    ELSE IF traced_item.enter_on_poll
         THEN token_stream_with_error(<<TLetGuard(traced_item.name), TBlock(block)>>,
                                      EnterOnPollOnSyncMsg)
         ELSE <<TLetGuard(traced_item.name), TBlock(block)>>

\* gen_block binding the guard to `_`: a wrong variant, against which
\* GuardHeldOverBody is tested.
gen_block_unbound_guard(block, async_context, traced_item) ==
    IF async_context
    THEN IF traced_item.enter_on_poll
         THEN <<TEnterOnPoll(block, traced_item.name)>>
         ELSE <<TInSpan(block, traced_item.name)>>
    ELSE IF traced_item.enter_on_poll
         THEN token_stream_with_error(
                  <<[TLetGuard(traced_item.name) EXCEPT !.binder = "_"], TBlock(block)>>,
                  EnterOnPollOnSyncMsg)
         ELSE <<[TLetGuard(traced_item.name) EXCEPT !.binder = "_"], TBlock(block)>>

\* gen_block without the error for enter_on_poll on a synchronous function: a
\* wrong variant, against which SyncEnterOnPollIsDiagnosed is tested.
gen_block_no_error(block, async_context, traced_item) ==
    IF async_context
    THEN IF traced_item.enter_on_poll
         THEN <<TEnterOnPoll(block, traced_item.name)>>
         ELSE <<TInSpan(block, traced_item.name)>>
    ELSE <<TLetGuard(traced_item.name), TBlock(block)>>

gen_block(block, async_context, traced_item) ==
    LET event == traced_item.name IN
    IF async_context
    THEN IF traced_item.enter_on_poll
         THEN <<TEnterOnPoll(block, event)>>
         ELSE <<TInSpan(block, event)>>
    ELSE IF traced_item.enter_on_poll
         THEN token_stream_with_error(<<TLetGuard(event), TBlock(block)>>, EnterOnPollOnSyncMsg)
         ELSE <<TLetGuard(event), TBlock(block)>>

\* -------------------------------------------------------- lower/lifetime.rs

ElidedLifetime == "'_"
TracerLifetime == "'minitrace"

\* CollectLifetimes::new("'life", _)
CollectLifetimesNew == [elided |-> <<>>, explicit |-> <<>>, name |-> "'life"]

\* next_lifetime: the minted name and the collector with it recorded.
next_lifetime(c) ==
    LET life == c.name \o ToString(Len(c.elided))
    IN  [lt |-> life, c |-> [c EXCEPT !.elided = Append(@, life)]]

\* Variant: every lifetime met is replaced by a minted one.
visit_lifetime_minting_all(lifetime, c) == next_lifetime(c)

visit_lifetime(lifetime, c) ==
    IF lifetime = ElidedLifetime
    THEN next_lifetime(c)
    ELSE [lt |-> lifetime, c |-> [c EXCEPT !.explicit = Append(@, lifetime)]]

visit_opt_lifetime(lifetime, c) ==
    IF IsNone(lifetime) THEN next_lifetime(c) ELSE visit_lifetime(lifetime[1], c)

\* Variant: the traversal stops at path types and does not enter their
\* generic arguments.
RECURSIVE visit_type_mut_not_entering_paths(_, _)
visit_type_mut_not_entering_paths(ty, c) ==
    CASE ty.kind = "Reference" ->
            LET l == visit_opt_lifetime(ty.lifetime, c)
                e == visit_type_mut_not_entering_paths(ty.elem, l.c)
            IN  [ty |-> [ty EXCEPT !.lifetime = Some(l.lt), !.elem = e.ty], c |-> e.c]
      [] OTHER -> [ty |-> ty, c |-> c]

\* visit_type_mut with the overrides visit_type_reference_mut and
\* visit_generic_argument_mut: the rewritten type and the collector.
RECURSIVE visit_type_mut(_, _), visit_generic_arguments(_, _)
visit_type_mut(ty, c) ==
    CASE ty.kind = "Reference" ->
            LET l == visit_opt_lifetime(ty.lifetime, c)
                e == visit_type_mut(ty.elem, l.c)
            IN  [ty |-> [ty EXCEPT !.lifetime = Some(l.lt), !.elem = e.ty], c |-> e.c]
      [] ty.kind = "Path" ->
            LET g == visit_generic_arguments(ty.args, c)
            IN  [ty |-> [ty EXCEPT !.args = g.args], c |-> g.c]
      [] OTHER -> [ty |-> ty, c |-> c]
visit_generic_arguments(gargs, c) ==
    IF Len(gargs) = 0 THEN [args |-> <<>>, c |-> c]
    ELSE LET g == Head(gargs)
             first == IF g.kind = "Lifetime"
                      THEN LET l == visit_lifetime(g.lifetime, c)
                           IN  [arg |-> [g EXCEPT !.lifetime = l.lt], c |-> l.c]
                      ELSE LET t == visit_type_mut(g.ty, c)
                           IN  [arg |-> [g EXCEPT !.ty = t.ty], c |-> t.c]
             rest == visit_generic_arguments(Tail(gargs), first.c)
         IN  [args |-> <<first.arg>> \o rest.args, c |-> rest.c]

visit_receiver_mut(arg, c) ==
    IF IsSome(arg.reference)
    THEN LET l == visit_opt_lifetime(arg.reference[1], c)
         IN  [arg |-> [arg EXCEPT !.reference = Some(Some(l.lt))], c |-> l.c]
    ELSE [arg |-> arg, c |-> c]

\* The loop of transform_sig over sig.inputs: the rewritten inputs and the
\* collector.
RECURSIVE CollectInputs(_, _)
CollectInputs(inputs, c) ==
    IF Len(inputs) = 0 THEN [inputs |-> <<>>, c |-> c]
    ELSE LET a == Head(inputs)
             first == IF a.kind = "Receiver"
                      THEN visit_receiver_mut(a, c)
                      ELSE LET t == visit_type_mut(a.ty, c)
                           IN  [arg |-> [a EXCEPT !.ty = t.ty], c |-> t.c]
             rest == CollectInputs(Tail(inputs), first.c)
         IN  [inputs |-> <<first.arg>> \o rest.inputs, c |-> rest.c]

\* The collector before any run, and a signature no run has touched.
NotResolved ==
    [inputs |-> <<>>, before |-> <<>>, c |-> CollectLifetimesNew,
     prev |-> CollectLifetimesNew, runs |-> 0]

\* ------------------------------------------------------- lower/signature.rs

where_clause_or_default(clause) == IF IsSome(clause) THEN clause[1] ELSE [predicates |-> <<>>]

PushPredicate(clause, pred) ==
    Some([predicates |-> Append(where_clause_or_default(clause).predicates, pred)])

\* HasMutPat: whether the pattern binds mutably anywhere within it.
RECURSIVE mut_pat(_)
mut_pat(pat) ==
    CASE pat.kind = "Ident" -> pat.mutability
      [] pat.kind = "Tuple" -> \E i \in 1..Len(pat.elems) : mut_pat(pat.elems[i])
      [] OTHER -> FALSE

positional_arg(i, pat) == "__arg" \o ToString(i)

\* HasSelf over a signature: a receiver, or a type path starting with Self.
RECURSIVE TypeHasSelf(_)
TypeHasSelf(ty) ==
    CASE ty.kind = "Reference" -> TypeHasSelf(ty.elem)
      [] ty.kind = "Path" ->
            \/ ty.ident = "Self"
            \/ \E i \in 1..Len(ty.args) : ty.args[i].kind = "Type" /\ TypeHasSelf(ty.args[i].ty)
      [] OTHER -> FALSE

\* Variant: only a receiver counts, not a mention of Self in a type.
has_self_in_sig_receiver_only(sig) ==
    \E i \in 1..Len(sig.inputs) : sig.inputs[i].kind = "Receiver"

has_self_in_sig(sig) ==
    \/ \E i \in 1..Len(sig.inputs) :
          \/ sig.inputs[i].kind = "Receiver"
          \/ sig.inputs[i].kind = "Typed" /\ TypeHasSelf(sig.inputs[i].ty)
    \/ sig.output.kind = "Type" /\ TypeHasSelf(sig.output.ty)

\* The where-clause after the loop over the generic parameters.
RECURSIVE ParamBounds(_, _)
ParamBounds(params, clause) ==
    IF Len(params) = 0 THEN clause
    ELSE LET gp == Head(params) IN
         CASE gp.kind = "Type" ->
                ParamBounds(Tail(params), PushPredicate(clause, Pred(gp.ident, <<TracerLifetime>>)))
           [] gp.kind = "Lifetime" ->
                ParamBounds(Tail(params), PushPredicate(clause, Pred(gp.lifetime, <<TracerLifetime>>)))
           [] OTHER -> ParamBounds(Tail(params), clause)

\* The where-clause after the loop over the minted lifetimes.
RECURSIVE ElidedBounds(_, _)
ElidedBounds(elided, clause) ==
    IF Len(elided) = 0 THEN clause
    ELSE ElidedBounds(Tail(elided), PushPredicate(clause, Pred(Head(elided), <<TracerLifetime>>)))

\* Send or Sync, from the first input.
SelfBound(inputs) ==
    IF Len(inputs) = 0 THEN "Send"
    ELSE LET a == inputs[1] IN
         IF a.kind = "Receiver" /\ IsSome(a.reference) /\ ~a.mutability THEN "Sync"
         ELSE IF /\ a.kind = "Typed" /\ a.pat.kind = "Ident" /\ a.ty.kind = "Reference"
                 /\ a.pat.ident = "self" /\ ~a.ty.mutability THEN "Sync"
         ELSE "Send"

\* The last loop of transform_sig: input number i (from 0) normalised.
NormalizeArg(i, arg) ==
    IF arg.kind = "Receiver"
    THEN IF IsSome(arg.reference) THEN arg ELSE [arg EXCEPT !.mutability = FALSE]
    ELSE IF arg.pat.kind = "Ident"
         THEN [arg EXCEPT !.pat.by_ref = FALSE]
         ELSE [arg EXCEPT !.pat = PIdent(positional_arg(i, arg.pat), FALSE, mut_pat(arg.pat))]

\* The where-clause after the bound on Self, if the signature mentions Self.
SelfBounds(has_self, is_local, inputs, clause) ==
    IF ~has_self THEN clause
    ELSE IF is_local
    THEN PushPredicate(clause, Pred("Self", <<TracerLifetime>>))
    ELSE PushPredicate(clause,
             Pred("Self", <<"::core::marker::" \o SelfBound(inputs), TracerLifetime>>))

\* The generics transform_sig leaves: 'minitrace, the minted lifetimes, the
\* original parameters; and the where-clause with the three groups of bounds.
TransformGenerics(sig, has_self, is_local, coll) ==
    [params |-> <<GPLifetime(TracerLifetime)>>
                    \o [i \in 1..Len(coll.c.elided) |-> GPLifetime(coll.c.elided[i])]
                    \o sig.generics.params,
     where_clause |-> SelfBounds(has_self, is_local, coll.inputs,
                          ElidedBounds(coll.c.elided,
                              ParamBounds(sig.generics.params, sig.generics.where_clause)))]

\* Variant: the future's output is unit whatever the declared return type.
TransformOutput_unit(output, is_local) ==
    RetType([kind |-> "ImplTrait",
             trait |-> "::core::future::Future",
             output |-> TPath("()", <<>>),
             bounds |-> IF is_local THEN <<TracerLifetime>>
                        ELSE <<"::core::marker::Send", TracerLifetime>>])

\* The return type transform_sig leaves.
TransformOutput(output, is_local) ==
    RetType([kind |-> "ImplTrait",
             trait |-> "::core::future::Future",
             output |-> IF output.kind = "Default" THEN TPath("()", <<>>) ELSE output.ty,
             bounds |-> IF is_local THEN <<TracerLifetime>>
                        ELSE <<"::core::marker::Send", TracerLifetime>>])

\* transform_sig once the inputs have been visited by the collector.
TransformCollected(sig, has_self, is_local, coll) ==
    [sig EXCEPT !.asyncness = FALSE,
                !.generics = TransformGenerics(sig, has_self, is_local, coll),
                !.inputs = [i \in 1..Len(coll.inputs) |-> NormalizeArg(i - 1, coll.inputs[i])],
                !.output = TransformOutput(sig.output, is_local)]

transform_sig(sig, has_self, is_local) ==
    TransformCollected(sig, has_self, is_local, CollectInputs(sig.inputs, CollectLifetimesNew))

\* A signature transform_sig has not been applied to.
NotRewritten ==
    LET sig == Sig(TRUE, "f", <<>>, None, <<>>, RetDefault)
    IN  [sig |-> sig, is_local |-> TRUE, out |-> sig, done |-> FALSE]

\* ------------------------------------------------------------------ lower.rs

UpgradeMsg == "not implemented: Please upgrade the crate async-trait to a version higher than 0.1.44"

TBoxPin(attrs, inner) == [kind |-> "BoxPin", call |-> "Box::pin", attrs |-> attrs, inner |-> inner]

\* The first statement of quote, given what get_async_trait_info found: the
\* instrumented body, or the panic of unimplemented!().
\* Variant: the extracted async block is instrumented as synchronous code.
FuncBodyWith_sync_inner(traced_item, info) ==
    IF IsSome(info)
    THEN IF info[1].kind = "Function"
         THEN [panicked |-> TRUE, msg |-> UpgradeMsg, tokens |-> <<>>]
         ELSE [panicked |-> FALSE, msg |-> "",
               tokens |-> <<TBoxPin(info[1].async_expr.attrs,
                                    gen_block(info[1].async_expr.block, FALSE, traced_item))>>]
    ELSE [panicked |-> FALSE, msg |-> "",
          tokens |-> gen_block(traced_item.item_fn.block,
                               traced_item.item_fn.sig.asyncness, traced_item)]

FuncBodyWith(traced_item, info) ==
    IF IsSome(info)
    THEN IF info[1].kind = "Function"
         THEN [panicked |-> TRUE, msg |-> UpgradeMsg, tokens |-> <<>>]
         ELSE [panicked |-> FALSE, msg |-> "",
               tokens |-> <<TBoxPin(info[1].async_expr.attrs,
                                    gen_block(info[1].async_expr.block, TRUE, traced_item))>>]
    ELSE [panicked |-> FALSE, msg |-> "",
          tokens |-> gen_block(traced_item.item_fn.block,
                               traced_item.item_fn.sig.asyncness, traced_item)]

FuncBody(traced_item) ==
    FuncBodyWith(traced_item,
                 get_async_trait_info(traced_item.item_fn.block,
                                      traced_item.item_fn.sig.asyncness))

\* Variant: the signature is transformed whether or not it is async.
QuoteSig_rewriting_all(sig) == transform_sig(sig, has_self_in_sig(sig), TRUE)

\* The signature quote takes apart: transformed iff the function is async.
QuoteSig(sig) ==
    IF sig.asyncness THEN transform_sig(sig, has_self_in_sig(sig), TRUE) ELSE sig

\* The Quote without a `trace` attribute among its attributes: a wrong
\* variant, against which AttributesCarriedUnchanged is tested.
QuoteOf_dropping_trace(input, sig, body) ==
    IF body.panicked
    THEN [panicked |-> TRUE, msg |-> body.msg, quote |-> None]
    ELSE [panicked |-> FALSE, msg |-> "",
          quote |-> Some([attrs |-> SelectSeq(input.attrs, LAMBDA a : a # "trace"),
                          vis |-> input.vis,
                          constness |-> sig.constness,
                          unsafety |-> sig.unsafety,
                          abi |-> sig.abi,
                          ident |-> sig.ident,
                          gen_params |-> sig.generics.params,
                          params |-> sig.inputs,
                          return_type |-> sig.output,
                          where_clause |-> sig.generics.where_clause,
                          func_body |-> body.tokens])]

\* The Quote built at the end of quote.
QuoteOf(input, sig, body) ==
    IF body.panicked
    THEN [panicked |-> TRUE, msg |-> body.msg, quote |-> None]
    ELSE [panicked |-> FALSE, msg |-> "",
          quote |-> Some([attrs |-> input.attrs,
                          vis |-> input.vis,
                          constness |-> sig.constness,
                          unsafety |-> sig.unsafety,
                          abi |-> sig.abi,
                          ident |-> sig.ident,
                          gen_params |-> sig.generics.params,
                          params |-> sig.inputs,
                          return_type |-> sig.output,
                          where_clause |-> sig.generics.where_clause,
                          func_body |-> body.tokens])]

\* quote: [panicked, msg, quote], quote being Some(Quote) unless it panicked.
quote(traced_item) ==
    QuoteOf(traced_item.item_fn, QuoteSig(traced_item.item_fn.sig), FuncBody(traced_item))

NotLowered == [panicked |-> FALSE, msg |-> "", quotes |-> <<>>]

\* lower: the Quotables, or the panic that unwinds out of the map over the
\* models (the partly filled Quotables is dropped with it).
\* Variant: the Quotables are emitted in the reverse of the models' order.
LowerOf_reversed(rs, bad) ==
    IF bad # {}
    THEN [panicked |-> TRUE,
          msg |-> rs[CHOOSE i \in bad : \A j \in bad : i <= j].msg,
          quotes |-> <<>>]
    ELSE [panicked |-> FALSE, msg |-> "",
          quotes |-> [i \in 1..Len(rs) |-> rs[Len(rs) + 1 - i].quote[1]]]

LowerOf(rs, bad) ==
    IF bad # {}
    THEN [panicked |-> TRUE,
          msg |-> rs[CHOOSE i \in bad : \A j \in bad : i <= j].msg,
          quotes |-> <<>>]
    ELSE [panicked |-> FALSE, msg |-> "", quotes |-> [i \in 1..Len(rs) |-> rs[i].quote[1]]]

Panicked(rs) == {i \in 1..Len(rs) : rs[i].panicked}

LowerAll(rs) == LowerOf(rs, Panicked(rs))

lower(ms) == LowerAll([i \in 1..Len(ms) |-> quote(ms[i])])

\* ------------------------------------------------- the functions analysed

BoxPin == EPath(<<"Box", "pin">>)
PlainSig(asy, id) == Sig(asy, id, <<>>, None, <<>>, RetDefault)

\* Bodies without a suspension point: straight-line code, a failure that
\* may propagate (`?`), an early return.
PlainBodies ==
    {Block(<<>>),
     Block(<<SExpr(EPath(<<"x">>))>>),
     Block(<<SLocal("y"), SSemi(ETry), SExpr(ELit)>>),
     Block(<<SSemi(ETry), SSemi(EReturn)>>)}

\* Bodies with suspension points, for asynchronous code.
AwaitBodies ==
    {Block(<<SSemi(EAwait), SExpr(ELit)>>),
     Block(<<SLocal("y"), SSemi(EAwait), SSemi(ETry), SExpr(ELit)>>)}

Work == Block(<<SSemi(EAwait), SExpr(ELit)>>)
AsyncFoo == ItemFn(<<>>, PlainSig(TRUE, "foo"), Work)
SyncFoo == ItemFn(<<>>, PlainSig(FALSE, "foo"), Block(<<>>))
FnG == ItemFn(<<>>, PlainSig(FALSE, "g"), Block(<<>>))
FnH == ItemFn(<<>>, PlainSig(FALSE, "h"), Block(<<SExpr(ELit)>>))
FnK == ItemFn(<<>>, PlainSig(FALSE, "k"), Block(<<>>))
LegacyTail == SExpr(ECall(BoxPin, <<ECall(EPath(<<"foo">>), <<>>)>>))
FnLegacy == ItemFn(<<>>, PlainSig(FALSE, "g"), Block(<<SItem(IFn(AsyncFoo)), LegacyTail>>))

\* Bodies whose trailing statement is, or resembles, the boxing call of the
\* async-trait convention.
BoxingBodies ==
    {\* Box::pin(async move { .. }), alone and after other statements
     Block(<<SExpr(ECall(BoxPin, <<EAsync(TRUE, Work)>>))>>),
     Block(<<SLocal("a"), SSemi(ELit), SExpr(ECall(BoxPin, <<EAsync(TRUE, Work)>>))>>),
     \* the same through longer paths that end in Box::pin
     Block(<<SExpr(ECall(EPath(<<"std", "boxed", "Box", "pin">>), <<EAsync(TRUE, Work)>>))>>),
     Block(<<SExpr(ECall(EPath(<<"MyBox", "pin">>), <<EAsync(TRUE, Work)>>))>>),
     \* an async block that does not capture by value
     Block(<<SExpr(ECall(BoxPin, <<EAsync(FALSE, Work)>>))>>),
     \* not the boxing helper, no argument, not a trailing expression
     Block(<<SExpr(ECall(EPath(<<"Box", "new">>), <<EAsync(TRUE, Work)>>))>>),
     Block(<<SExpr(ECall(BoxPin, <<>>))>>),
     Block(<<SSemi(ECall(BoxPin, <<EAsync(TRUE, Work)>>))>>),
     \* async-trait <= 0.1.43: async fn foo() {..} Box::pin(foo())
     Block(<<SItem(IFn(AsyncFoo)), LegacyTail>>),
     Block(<<SItem(IFn(FnH)), SItem(IFn(AsyncFoo)), LegacyTail>>),
     \* the same call with foo not asynchronous, or not declared in the body
     Block(<<SItem(IFn(SyncFoo)), LegacyTail>>),
     Block(<<LegacyTail>>)}

\* Bodies with nested items.
NestingBodies ==
    {Block(<<SItem(IFn(FnG)), SItem(IFn(FnH))>>),
     Block(<<SItem(IMod("m", <<IFn(FnK)>>)), SExpr(ELit)>>),
     Block(<<SItem(IFn(FnLegacy)), SItem(IFn(FnH))>>)}

\* Bodies with functions nested two deep and functions of the same name in
\* different scopes.
FnHG == ItemFn(<<>>, PlainSig(FALSE, "h"), Block(<<SItem(IFn(FnG))>>))
DeepNestingBodies ==
    {Block(<<SItem(IFn(FnHG)), SItem(IFn(FnG))>>),
     Block(<<SItem(IFn(FnG)), SItem(IMod("m", <<IFn(FnG), IFn(FnH)>>))>>)}

Bodies(asy) == PlainBodies \cup BoxingBodies \cup NestingBodies \cup DeepNestingBodies
                   \cup (IF asy THEN AwaitBodies ELSE {})

TargetIdents == {"f", DefaultName}
AttrLists == {<<>>, <<"a", "b">>, <<"a", "trace", "b">>, <<"trace">>}

\* Signatures with parameters, generics and a return type.
RichSig(asy) ==
    {Sig(asy, "f", <<>>, None, <<Typed(PIdent("x", FALSE, FALSE), TPath("bool", <<>>))>>,
         RetType(TPath("bool", <<>>))),
     Sig(asy, "f", <<GPType("T")>>, Some([predicates |-> <<Pred("T", <<"Clone">>)>>]),
         <<Receiver(Some(None), FALSE),
           Typed(PTuple(<<PIdent("p", FALSE, TRUE), PIdent("q", FALSE, FALSE)>>),
                 TRef(None, FALSE, TPath("T", <<>>)))>>,
         RetDefault)}

\* Functions with a visibility, qualifiers and an attribute, with a plain
\* body and with a body that ends in the boxing call.
Qualified(f) == [f EXCEPT !.vis = "pub", !.sig.unsafety = TRUE, !.sig.abi = Some("C")]
QualifiedFunctions ==
    {Qualified(ItemFn(<<"a">>, sg, b)) :
        sg \in RichSig(TRUE) \cup RichSig(FALSE),
        b \in {Block(<<SExpr(ELit)>>),
               Block(<<SExpr(ECall(BoxPin, <<EAsync(TRUE, Work)>>))>>)}}
    \cup {[ItemFn(<<>>, PlainSig(FALSE, "f"), Block(<<>>))
              EXCEPT !.vis = "pub(crate)", !.sig.constness = TRUE]}

Functions ==
    {ItemFn(<<>>, PlainSig(asy, id), b) : id \in TargetIdents, <<asy, b>> \in
        {<<TRUE, b>> : b \in Bodies(TRUE)} \cup {<<FALSE, b>> : b \in Bodies(FALSE)}}
    \cup {ItemFn(at, PlainSig(asy, "f"), Block(<<>>)) : at \in AttrLists, asy \in BOOLEAN}
    \cup {ItemFn(<<"a">>, sg, Block(<<SExpr(EPath(<<"x">>))>>)) :
             sg \in RichSig(TRUE) \cup RichSig(FALSE)}
    \cup QualifiedFunctions

\* ------------------------------------------------------------ the pipeline

NoRun == [fn |-> 0, pc |-> "idle"]

Init ==
    /\ stage = "start"
    /\ args \in OptionLists
    /\ parsed = ParseErr("")
    /\ items = <<>>
    /\ models = <<>>
    /\ lowered = NotLowered
    /\ run = NoRun
    /\ resolver = NotResolved
    /\ rewrite = NotRewritten

\* Trace::parse on the attribute's option list.
DoParse ==
    /\ stage = "start"
    /\ parsed' = Parse(args)
    /\ stage' = IF parsed'.ok THEN "parsed" ELSE "rejected"
    /\ UNCHANGED <<args, items, models, lowered, run, resolver, rewrite>>

\* analyze on the validated options and the annotated function.
DoAnalyze ==
    /\ stage = "parsed"
    /\ \E f \in Functions :
          /\ items' = <<IFn(f)>>
          /\ models' = Analyze(parsed.trace, items')
    /\ stage' = "analyzed"
    /\ UNCHANGED <<args, parsed, lowered, run, resolver, rewrite>>

\* lower on the models.
DoLower ==
    /\ stage = "analyzed"
    /\ lowered' = lower(models)
    /\ stage' = IF lowered'.panicked THEN "panicked" ELSE "lowered"
    /\ UNCHANGED <<args, parsed, items, models, run, resolver, rewrite>>

\* analyze called on a Trace built field by field, as the tests of analyze.rs
\* and lower.rs build it, instead of on the result of Trace::parse.
BuiltTraces ==
    {[TraceDefault EXCEPT !.name = n, !.recurse = Some(r)] :
        n \in {DefaultName, "a"}, r \in BOOLEAN}

InitBuilt ==
    /\ stage = "parsed"
    /\ args = <<>>
    /\ parsed \in {ParseOk(t) : t \in BuiltTraces}
    /\ items = <<>>
    /\ models = <<>>
    /\ lowered = NotLowered
    /\ run = NoRun
    /\ resolver = NotResolved
    /\ rewrite = NotRewritten

NextBuilt == DoAnalyze

SpecBuilt == InitBuilt /\ [][NextBuilt]_vars

\* ------------------------------------------------ the parser on its own
\* Trace::parse applied to option lists long enough to pass its arity test
\* and to fail it, and to each option the attribute's documentation names.
MaxArgs == 4

\* The options documented for the attribute, and the kind of literal each
\* takes when written as key = literal.
DocumentedOptions ==
    {"name", "scope", "enter_on_poll", "parent", "recorder", "recurse",
     "root", "variables", "async_trait"}
ExpectedKind(key) ==
    IF key \in {"enter_on_poll", "recurse", "root", "async_trait"}
    THEN "Bool" ELSE "Str"

ParsePairs ==
    {[path |-> "name", lit |-> LitStr("a")],
     [path |-> "name", lit |-> LitBool(TRUE)],
     [path |-> "enter_on_poll", lit |-> LitBool(TRUE)],
     [path |-> "enter_on_poll", lit |-> LitStr("a")],
     [path |-> "recurse", lit |-> LitBool(TRUE)],
     [path |-> "level", lit |-> LitStr("a")]}
SingleOptionLists ==
    {<<[path |-> k, lit |-> v]>> : k \in DocumentedOptions, v \in OptionValues}
ParseInputs ==
    SeqsUpTo(ParsePairs, MaxArgs) \cup OptionLists \cup SingleOptionLists

InitParse ==
    /\ stage = "start"
    /\ args \in ParseInputs
    /\ parsed = ParseErr("")
    /\ items = <<>>
    /\ models = <<>>
    /\ lowered = NotLowered
    /\ run = NoRun
    /\ resolver = NotResolved
    /\ rewrite = NotRewritten

NextParse == DoParse

SpecParse == InitParse /\ [][NextParse]_vars

\* ------------------------------------- the lifetime collector on its own
\* The loop of transform_sig over sig.inputs with a fresh CollectLifetimes,
\* applied to a signature's inputs and then again to its own result.
\* resolver = [inputs: the inputs as they now are, before: as they were
\* before the last run, c: the collector after the last run, prev: the
\* collector after the run before it, runs].
ResolverLifetimes == {None, Some(ElidedLifetime), Some("'a")}
ResolverTypes ==
    LET u8 == TPath("u8", <<>>)
    IN  {u8}
        \cup {TRef(l, FALSE, u8) : l \in ResolverLifetimes}
        \cup {TRef(l, FALSE, TRef(m, TRUE, u8)) :
                 l \in {None, Some("'b")}, m \in {None, Some("'a")}}
        \cup {TPath("Vec", <<GType(TRef(l, FALSE, u8))>>) : l \in ResolverLifetimes}
        \cup {TPath("Cow", <<GLifetime(l), GType(u8)>>) : l \in {ElidedLifetime, "'a"}}
        \cup {TPath("Map", <<GType(TRef(None, FALSE, u8)),
                             GType(TPath("Cow", <<GLifetime(ElidedLifetime),
                                                  GType(TRef(Some("'b"), FALSE, u8))>>))>>)}
ResolverReceivers ==
    {<<>>, <<Receiver(None, FALSE)>>, <<Receiver(Some(None), FALSE)>>,
     <<Receiver(Some(Some(ElidedLifetime)), TRUE)>>,
     <<Receiver(Some(Some("'a")), FALSE)>>}
ResolverParams ==
    {[i \in 1..Len(tys) |-> Typed(PIdent("p" \o ToString(i), FALSE, FALSE), tys[i])] :
        tys \in SeqsUpTo(ResolverTypes, MaxParams)}
ResolverInputs == {r \o ps : r \in ResolverReceivers, ps \in ResolverParams}

InitResolver ==
    /\ stage = "start"
    /\ args = <<>>
    /\ parsed = ParseErr("")
    /\ items = <<>>
    /\ models = <<>>
    /\ lowered = NotLowered
    /\ run = NoRun
    /\ resolver \in {[NotResolved EXCEPT !.inputs = ins, !.before = ins] :
                         ins \in ResolverInputs}
    /\ rewrite = NotRewritten

Resolve ==
    /\ resolver.runs < MaxRuns
    /\ LET r == CollectInputs(resolver.inputs, CollectLifetimesNew)
       IN  resolver' = [inputs |-> r.inputs, before |-> resolver.inputs,
                        c |-> r.c, prev |-> resolver.c,
                        runs |-> resolver.runs + 1]
    /\ UNCHANGED <<stage, args, parsed, items, models, lowered, run, rewrite>>

NextResolver == Resolve

SpecResolver == InitResolver /\ [][NextResolver]_vars

\* ------------------------------------------------ transform_sig on its own
\* transform_sig applied to asynchronous signatures, with has_self computed
\* as quote computes it and is_local either way.
\* rewrite = [sig: the signature as written, is_local, out: the signature
\* transform_sig leaves, done].
SigGenerics ==
    {[params |-> <<>>, where_clause |-> None],
     [params |-> <<GPType("T")>>,
      where_clause |-> Some([predicates |-> <<Pred("T", <<"Clone">>)>>])],
     [params |-> <<GPLifetime("'a"), GPType("T"), GPConst("N")>>, where_clause |-> None],
     [params |-> <<GPLifetime("'life0")>>, where_clause |-> None]}
SigReceivers ==
    {<<>>,
     <<Receiver(None, FALSE)>>, <<Receiver(None, TRUE)>>,
     <<Receiver(Some(None), FALSE)>>, <<Receiver(Some(None), TRUE)>>,
     <<Receiver(Some(Some("'a")), FALSE)>>,
     <<Typed(PIdent("self", FALSE, FALSE), TRef(None, FALSE, TPath("Self", <<>>)))>>}
\* The typed parameters offered at position k among the typed parameters.
SigTyped(k) ==
    LET n == ToString(k)
        u8 == TPath("u8", <<>>)
    IN  {Typed(PIdent("x" \o n, FALSE, FALSE), u8),
         Typed(PIdent("x" \o n, TRUE, FALSE), TRef(None, FALSE, u8)),
         Typed(PIdent("x" \o n, FALSE, TRUE), TRef(Some("'a"), FALSE, u8)),
         Typed(PIdent("x" \o n, FALSE, FALSE), TRef(Some("'life0"), FALSE, u8)),
         Typed(PIdent("__arg" \o n, FALSE, FALSE), TPath("Self", <<>>)),
         Typed(PTuple(<<PIdent("p" \o n, FALSE, TRUE), PIdent("q" \o n, FALSE, FALSE)>>),
               TRef(None, FALSE, u8)),
         Typed(PTuple(<<PIdent("p" \o n, FALSE, FALSE), PIdent("q" \o n, TRUE, FALSE)>>),
               TRef(Some("'static"), FALSE, u8))}
SigParams ==
    UNION {{ps \in [1..n -> UNION {SigTyped(k) : k \in 1..n}] :
               \A k \in 1..n : ps[k] \in SigTyped(k)} : n \in 0..MaxParams}
SigOutputs == {RetDefault, RetType(TPath("Self", <<>>)), RetType(TPath("u8", <<>>))}
AsyncSigs ==
    {[Sig(TRUE, "f", <<>>, None, r \o ps, out) EXCEPT !.generics = g] :
        g \in SigGenerics, r \in SigReceivers, ps \in SigParams, out \in SigOutputs}

InitSig ==
    /\ stage = "start"
    /\ args = <<>>
    /\ parsed = ParseErr("")
    /\ items = <<>>
    /\ models = <<>>
    /\ lowered = NotLowered
    /\ run = NoRun
    /\ resolver = NotResolved
    /\ rewrite \in {[NotRewritten EXCEPT !.sig = sg, !.out = sg, !.is_local = l] :
                        sg \in AsyncSigs, l \in BOOLEAN}

TransformSig ==
    /\ ~rewrite.done
    /\ rewrite' = [rewrite EXCEPT
                      !.out = transform_sig(rewrite.sig, has_self_in_sig(rewrite.sig),
                                            rewrite.is_local),
                      !.done = TRUE]
    /\ UNCHANGED <<stage, args, parsed, items, models, lowered, run, resolver>>

NextSig == TransformSig

SpecSig == InitSig /\ [][NextSig]_vars

\* ------------------------------------------- running an emitted function
\* The emitted code calls into the minitrace runtime and relies on the
\* language's scoping of bindings.  Both are modelled from their documented
\* contracts:
\*   LocalSpan::enter_with_local_parent(name)  enters a local span and
\*       returns a guard that leaves it when dropped;
\*   a value bound by `let` to a name is dropped when its scope ends, however
\*       the scope is left; bound to `_` it is dropped at once;
\*   Span::enter_with_local_parent(name)  creates a span from the ambient
\*       local parent, when evaluated;
\*   in_span(fut, span)  keeps the span with the future and finishes it when
\*       the future completes;
\*   enter_on_poll(fut, name)  enters a local span around every poll.

\* Whether the emitted tokens compile: no compile_error! among them.
Compiles(tokens) == \A i \in 1..Len(tokens) : tokens[i].kind # "CompileError"

\* The future-wrapping call an emitted body evaluates, if that is what it is.
WrapperCall(tokens) ==
    IF Len(tokens) # 1 THEN None
    ELSE IF tokens[1].kind = "Call" THEN Some(tokens[1])
    ELSE IF tokens[1].kind = "BoxPin" /\ Len(tokens[1].inner) = 1
            /\ tokens[1].inner[1].kind = "Call" THEN Some(tokens[1].inner[1])
    ELSE None

\* The statements the running code is in.
RunStmts(q, r) ==
    IF r.wrapper # "none"
    THEN WrapperCall(q.func_body)[1].fut.tokens[1].block.stmts
    ELSE q.func_body[r.tk - 1].block.stmts

StartRun(i) ==
    [fn |-> i, pc |-> "scope", tk |-> 1, ip |-> 0, wrapper |-> "none", event |-> "",
     entered |-> 0, left |-> 0, held |-> FALSE, spans |-> 0, span_alive |-> FALSE,
     polls |-> 0, exit |-> "none"]

\* The caller calls emitted function i.  A function whose body is a
\* future-wrapping call evaluates the call's operands and returns the future.
CallFn ==
    /\ stage = "lowered"
    /\ run.pc = "idle"
    /\ \E i \in 1..Len(lowered.quotes) :
          LET q == lowered.quotes[i]
              w == WrapperCall(q.func_body) IN
          /\ Compiles(q.func_body)
          /\ run' = IF IsNone(w) THEN StartRun(i)
                    ELSE IF w[1].call = InSpanFn
                    THEN [StartRun(i) EXCEPT !.pc = "constructed", !.wrapper = "in_span",
                                             !.event = w[1].span.event,
                                             !.spans = 1, !.span_alive = TRUE, !.ip = 1]
                    ELSE [StartRun(i) EXCEPT !.pc = "constructed", !.wrapper = "enter_on_poll",
                                             !.event = w[1].event, !.ip = 1]
    /\ UNCHANGED <<stage, args, parsed, items, models, lowered, resolver, rewrite>>

\* The next token group of a synchronous body, or the end of its scope.
ExecToken ==
    /\ run.pc = "scope"
    /\ LET toks == lowered.quotes[run.fn].func_body IN
       IF run.tk > Len(toks)
       THEN run' = [run EXCEPT !.pc = "unwinding", !.exit = "normal"]
       ELSE LET t == toks[run.tk] IN
            IF t.kind = "Let" /\ t.init.call = LocalEnter
            THEN run' = [run EXCEPT !.tk = @ + 1, !.event = t.init.event,
                                    !.entered = @ + 1,
                                    !.held = (t.binder # "_"),
                                    !.left = IF t.binder = "_" THEN @ + 1 ELSE @]
            ELSE run' = [run EXCEPT !.tk = @ + 1, !.pc = "body", !.ip = 1]
    /\ UNCHANGED <<stage, args, parsed, items, models, lowered, resolver, rewrite>>

\* How a poll ends: the local span entered for it is left; a completed
\* in_span future finishes its span.
EndPoll(r, pc, exit) ==
    [r EXCEPT !.pc = pc, !.exit = exit,
              !.held = FALSE,
              !.left = IF r.wrapper = "enter_on_poll" THEN @ + 1 ELSE @,
              !.span_alive = IF pc = "ready" THEN FALSE ELSE @]

\* How running code leaves its body.
Leave(r, exit) ==
    IF r.wrapper = "none" THEN [r EXCEPT !.pc = "unwinding", !.exit = exit]
    ELSE EndPoll(r, "ready", exit)

\* One statement of the original body.
ExecStmt ==
    /\ run.pc \in {"body", "polling"}
    /\ LET stmts == RunStmts(lowered.quotes[run.fn], run) IN
       IF run.ip > Len(stmts)
       THEN run' = IF run.wrapper = "none" THEN [run EXCEPT !.pc = "scope"]
                   ELSE EndPoll(run, "ready", "normal")
       ELSE LET st == stmts[run.ip]
                k == IF st.kind \in {"Expr", "Semi"} THEN st.expr.kind ELSE st.kind IN
            \/ /\ k = "Return"
               /\ run' = Leave(run, "return")
            \/ /\ k = "Try"
               /\ run' = Leave(run, "failure")
            \/ /\ k = "Await"
               /\ run.wrapper # "none"
               /\ run.polls <= MaxPolls
               /\ run' = EndPoll(run, "suspended", "none")
            \/ /\ k # "Return"
               /\ run' = [run EXCEPT !.ip = @ + 1]
    /\ UNCHANGED <<stage, args, parsed, items, models, lowered, resolver, rewrite>>

\* The scope of a synchronous body ends: live guards are dropped.
DropGuards ==
    /\ run.pc = "unwinding"
    /\ run' = [run EXCEPT !.pc = "exited", !.held = FALSE,
                          !.left = IF run.held THEN @ + 1 ELSE @]
    /\ UNCHANGED <<stage, args, parsed, items, models, lowered, resolver, rewrite>>

\* The executor polls the future.
Poll ==
    /\ run.pc \in {"constructed", "suspended"}
    /\ run' = [run EXCEPT !.pc = "polling", !.polls = @ + 1,
                          !.held = TRUE,
                          !.entered = IF run.wrapper = "enter_on_poll" THEN @ + 1 ELSE @]
    /\ UNCHANGED <<stage, args, parsed, items, models, lowered, resolver, rewrite>>

Next == DoParse \/ DoAnalyze \/ DoLower \/ CallFn \/ ExecToken \/ ExecStmt \/ DropGuards \/ Poll

Spec == Init /\ [][Next]_vars

\* ------------------------------------------------------------------ claims

Analysed == stage \in {"analyzed", "lowered", "panicked"}

\* The option list names the option `name`.
NameSupplied == \E i \in 1..Len(args) : args[i].path = "name"

\* The string given for `name`, when the list was accepted with one.
SuppliedName == args[CHOOSE i \in 1..Len(args) : args[i].path = "name"].lit.s

\* C1: for every function analysed with an option list that supplied a name,
\* the span name of its model is the supplied string.  (The other half of C1:
\* without a name the span name is the function's identifier.)
SuppliedNameIsSpanName ==
    (Analysed /\ NameSupplied) =>
        \A i \in 1..Len(models) : models[i].name = SuppliedName

\* The detector does not match: the function is instrumented as written.
NotDesugared(ti) == IsNone(get_async_trait_info(ti.item_fn.block, ti.item_fn.sig.asyncness))

SyncPlain(ti) == ~ti.item_fn.sig.asyncness /\ NotDesugared(ti) /\ ~ti.enter_on_poll

\* C2: for every synchronous function that the detector does not match and
\* that has enter_on_poll = false, the output body is one guard acquisition
\* (a local span labelled with the resolved span name, bound to a name) and
\* then the original body unchanged, and the generics, parameters, return
\* type and where-clause of the output are those of the input.
SyncGuardThenBody ==
    stage = "lowered" =>
        \A i \in 1..Len(models) :
            SyncPlain(models[i]) =>
                LET q == lowered.quotes[i]
                    f == models[i].item_fn IN
                /\ Len(q.func_body) = 2
                /\ q.func_body[1].kind = "Let"
                /\ q.func_body[1].binder # "_"
                /\ q.func_body[1].init = [call |-> LocalEnter, event |-> models[i].name]
                /\ q.func_body[2] = [kind |-> "Block", block |-> f.block]
                /\ q.gen_params = f.sig.generics.params
                /\ q.params = f.sig.inputs
                /\ q.return_type = f.sig.output
                /\ q.where_clause = f.sig.generics.where_clause
                /\ q.ident = f.sig.ident

\* A synchronous function with parameters, generics and a return type has
\* been lowered with a supplied name.
SyncGuardThenBodyWitness ==
    /\ stage = "lowered"
    /\ \E i \in 1..Len(models) :
          /\ SyncPlain(models[i])
          /\ models[i].name = "a"
          /\ Len(models[i].item_fn.sig.inputs) > 0
          /\ Len(models[i].item_fn.block.stmts) > 0
          /\ lowered.quotes[i].func_body[1].kind = "Let"

Running == run.pc # "idle"

RunModel == models[run.fn]

NativeAsync(ti) == ti.item_fn.sig.asyncness

\* C3: for a natively asynchronous function the flag alone selects the
\* wrapper, the output returns the wrapped future of the whole original body,
\* and the span carries the resolved span name.  With enter_on_poll = false
\* one span is created when the function is called, before any poll, and lives
\* until the computation completes; no local span is entered per poll.  With
\* enter_on_poll = true no span is created at the call, a local span is
\* entered at every poll and left at every suspension and at completion.
NativeAsyncWrapper ==
    /\ stage = "lowered" =>
          \A i \in 1..Len(models) :
              NativeAsync(models[i]) =>
                  LET q == lowered.quotes[i] IN
                  /\ Len(q.func_body) = 1
                  /\ q.func_body[1].kind = "Call"
                  /\ q.func_body[1].call =
                         IF models[i].enter_on_poll THEN EnterOnPollFn ELSE InSpanFn
                  /\ q.func_body[1].fut =
                         [kind |-> "Async", capture |-> TRUE,
                          tokens |-> <<[kind |-> "Block", block |-> models[i].item_fn.block]>>]
                  /\ q.return_type.kind = "Type"
                  /\ q.return_type.ty.kind = "ImplTrait"
                  /\ q.return_type.ty.trait = "::core::future::Future"
    /\ (Running /\ NativeAsync(RunModel)) =>
          /\ run.event = RunModel.name
          /\ run.pc \in {"constructed", "polling", "suspended", "ready"}
          /\ run.pc = "constructed" => run.polls = 0
          /\ IF ~RunModel.enter_on_poll
             THEN /\ run.spans = 1
                  /\ run.span_alive <=> run.pc # "ready"
                  /\ run.entered = 0 /\ run.left = 0
             ELSE /\ run.spans = 0 /\ ~run.span_alive
                  /\ run.entered = run.polls
                  /\ run.held <=> run.pc = "polling"
                  /\ run.left = IF run.pc = "polling" THEN run.polls - 1 ELSE run.polls

\* An enter_on_poll future has completed after being suspended and resumed.
NativeAsyncWrapperWitness ==
    /\ Running /\ NativeAsync(RunModel) /\ RunModel.enter_on_poll
    /\ run.pc = "ready" /\ run.polls >= 2 /\ run.left = run.polls

SyncInstrumented(ti) == ~ti.item_fn.sig.asyncness /\ NotDesugared(ti)

\* C4: while the output of a synchronous instrumented function runs, the
\* span has been entered once before the first statement of the original
\* body, is held as long as the body executes, and has been released exactly
\* once when the function has exited, however it exited.
GuardHeldOverBody ==
    (Running /\ SyncInstrumented(RunModel)) =>
        /\ run.pc \in {"scope", "body", "unwinding", "exited"}
        /\ run.entered <= 1 /\ run.left <= run.entered
        /\ run.pc = "body" => (run.held /\ run.entered = 1 /\ run.left = 0)
        /\ run.pc = "unwinding" => (run.held /\ run.left = 0)
        /\ run.pc = "exited" => (~run.held /\ run.entered = 1 /\ run.left = 1)
        /\ run.event = IF run.entered = 1 THEN RunModel.name ELSE ""

\* A synchronous instrumented function has exited by a propagated failure.
GuardHeldOverBodyWitness ==
    /\ Running /\ SyncInstrumented(RunModel)
    /\ run.pc = "exited" /\ run.exit = "failure" /\ run.left = 1

ErrorTokens(tokens) == {k \in 1..Len(tokens) : tokens[k].kind = "CompileError"}

SyncWithEnterOnPoll(ti) == SyncInstrumented(ti) /\ ti.enter_on_poll

\* C5: for a synchronous function the detector does not match, with
\* enter_on_poll = true, the lowered body holds exactly one compile error,
\* with the message of block.rs, so the output never is free of diagnostics
\* and never runs.
SyncEnterOnPollIsDiagnosed ==
    /\ stage = "lowered" =>
          \A i \in 1..Len(models) :
              SyncWithEnterOnPoll(models[i]) =>
                  LET body == lowered.quotes[i].func_body IN
                  /\ Cardinality(ErrorTokens(body)) = 1
                  /\ \A k \in ErrorTokens(body) : body[k].msg = EnterOnPollOnSyncMsg
                  /\ ~Compiles(body)
    /\ Running => ~SyncWithEnterOnPoll(RunModel)

\* A synchronous function has been lowered with enter_on_poll = true.
SyncEnterOnPollIsDiagnosedWitness ==
    /\ stage = "lowered"
    /\ \E i \in 1..Len(models) :
          /\ SyncWithEnterOnPoll(models[i])
          /\ ErrorTokens(lowered.quotes[i].func_body) # {}

\* The shape C6 names, read off the syntax: the last statement without a
\* semicolon is a call of a path whose last two segments are Box, pin, with at
\* least one argument, the first an async block capturing as `move` says.
BoxPinAsyncShape(f, move) ==
    \E k \in 1..Len(f.block.stmts) :
        LET st == f.block.stmts[k] IN
        /\ st.kind = "Expr"
        /\ \A j \in (k + 1)..Len(f.block.stmts) : f.block.stmts[j].kind # "Expr"
        /\ st.expr.kind = "Call"
        /\ st.expr.func.kind = "Path"
        /\ Len(st.expr.func.path) >= 2
        /\ SubSeq(st.expr.func.path, Len(st.expr.func.path) - 1, Len(st.expr.func.path))
               = <<"Box", "pin">>
        /\ Len(st.expr.args) >= 1
        /\ st.expr.args[1].kind = "Async"
        /\ st.expr.args[1].capture = move

\* The async block that is the first argument of the last call of f.
BoxedAsync(f) == f.block.stmts[LastExprStmt(f.block.stmts)].expr.args[1]

\* C6: a synchronous function whose body ends in Box::pin(async move {..})
\* is lowered as DesugaredAsync, the body of the async block being what is
\* instrumented; with an async block without `move` it is lowered as Sync.
BoxPinAsyncMoveIsDesugared ==
    stage = "lowered" =>
        \A i \in 1..Len(models) :
            LET f == models[i].item_fn
                body == lowered.quotes[i].func_body IN
            /\ (~f.sig.asyncness /\ BoxPinAsyncShape(f, TRUE)) =>
                  /\ Len(body) = 1
                  /\ body[1].kind = "BoxPin"
                  /\ Len(body[1].inner) = 1
                  /\ body[1].inner[1].kind = "Call"
                  /\ body[1].inner[1].fut.tokens = <<[kind |-> "Block", block |-> BoxedAsync(f).block]>>
            /\ (~f.sig.asyncness /\ BoxPinAsyncShape(f, FALSE)) =>
                  /\ body[1].kind = "Let"
                  /\ body[2] = [kind |-> "Block", block |-> f.block]

\* A synchronous function ending in Box::pin(async move {..}) after other
\* statements has been lowered.
BoxPinAsyncMoveIsDesugaredWitness ==
    /\ stage = "lowered"
    /\ \E i \in 1..Len(models) :
          /\ ~models[i].item_fn.sig.asyncness
          /\ BoxPinAsyncShape(models[i].item_fn, TRUE)
          /\ Len(models[i].item_fn.block.stmts) > 1
          /\ lowered.quotes[i].func_body[1].kind = "BoxPin"

\* C7: for a function declared async the detector reports no match, whatever
\* its body, and the whole original body is what the wrapper wraps.
AsyncFnIsNeverDesugared ==
    /\ Analysed =>
          \A i \in 1..Len(models) :
              NativeAsync(models[i]) =>
                  /\ IsNone(get_async_trait_info(models[i].item_fn.block, TRUE))
                  /\ ~FuncBody(models[i]).panicked
    /\ stage = "lowered" =>
          \A i \in 1..Len(models) :
              NativeAsync(models[i]) =>
                  /\ Len(lowered.quotes[i].func_body) = 1
                  /\ lowered.quotes[i].func_body[1].kind = "Call"
                  /\ lowered.quotes[i].func_body[1].fut.tokens
                         = <<[kind |-> "Block", block |-> models[i].item_fn.block]>>

\* An async function whose body ends in Box::pin(async move {..}) has been
\* lowered.
AsyncFnIsNeverDesugaredWitness ==
    /\ stage = "lowered"
    /\ \E i \in 1..Len(models) :
          /\ NativeAsync(models[i])
          /\ BoxPinAsyncShape(models[i].item_fn, TRUE)
          /\ lowered.quotes[i].func_body[1].kind = "Call"

\* The detector reports the legacy convention for the function.
LegacyShape(ti) ==
    IsSome(get_async_trait_info(ti.item_fn.block, ti.item_fn.sig.asyncness))
        /\ get_async_trait_info(ti.item_fn.block, ti.item_fn.sig.asyncness)[1].kind = "Function"

\* C8: when the detector recognises the legacy convention, the failure is
\* reported with the upgrade message, and it is the failure of that function
\* only: every other model of the run still yields its output.
LegacyFailureIsLocal ==
    stage \in {"lowered", "panicked"} =>
        \A i \in 1..Len(models) :
            IF LegacyShape(models[i])
            THEN lowered.panicked /\ lowered.msg = UpgradeMsg
            ELSE \E k \in 1..Len(lowered.quotes) :
                     Some(lowered.quotes[k]) = quote(models[i]).quote

\* C9: for every accepted option list and every function, no stage of
\* parse -> analyze -> lower panics.
NoStagePanics == stage # "panicked" /\ ~lowered.panicked

\* C10 as stated: the output carries the attributes other than the traced
\* attribute, in their order, and not the traced attribute.
TracedAttributeRemoved ==
    stage = "lowered" =>
        \A i \in 1..Len(models) :
            lowered.quotes[i].attrs
                = SelectSeq(VisitItems(items)[i].attrs, LAMBDA a : a # "trace")

\* C10, amended: the output carries every attribute of the function handed to
\* the pipeline, unchanged and in order, a `trace` attribute among them
\* included.
AttributesCarriedUnchanged ==
    stage = "lowered" =>
        /\ Len(lowered.quotes) = Len(VisitItems(items))
        /\ \A i \in 1..Len(lowered.quotes) :
               lowered.quotes[i].attrs = VisitItems(items)[i].attrs

\* A function written with attributes before and after a `trace` attribute
\* has been lowered.
AttributesCarriedUnchangedWitness ==
    /\ stage = "lowered"
    /\ items[1].fn.attrs = <<"a", "trace", "b">>
    /\ lowered.quotes[1].attrs = <<"a", "trace", "b">>

\* Every function item inside f, f first, in source order, whatever it is
\* nested in: read off the syntax, independently of the visitor.
RECURSIVE FnsInside(_), FnsInStmts(_), FnsInItems(_)
FnsInside(f) == <<f>> \o FnsInStmts(f.block.stmts)
FnsInStmts(ss) ==
    IF Len(ss) = 0 THEN <<>>
    ELSE (IF Head(ss).kind # "Item" THEN <<>>
          ELSE FnsInItems(<<Head(ss).item>>)) \o FnsInStmts(Tail(ss))
FnsInItems(its) ==
    IF Len(its) = 0 THEN <<>>
    ELSE (IF Head(its).kind = "Fn" THEN FnsInside(Head(its).fn)
          ELSE FnsInItems(Head(its).items)) \o FnsInItems(Tail(its))

\* The function items reached from f through nested function items only.
RECURSIVE FnsThroughFns(_), FnsThroughFnStmts(_)
FnsThroughFns(f) == <<f>> \o FnsThroughFnStmts(f.block.stmts)
FnsThroughFnStmts(ss) ==
    IF Len(ss) = 0 THEN <<>>
    ELSE (IF Head(ss).kind = "Item" /\ Head(ss).item.kind = "Fn"
          THEN FnsThroughFns(Head(ss).item.fn) ELSE <<>>) \o FnsThroughFnStmts(Tail(ss))

Recurse == parsed.trace.recurse = Some(TRUE)

ModelFns == [i \in 1..Len(models) |-> models[i].item_fn]

NestedOnlyIfRecurse ==
    Analysed =>
        IF Recurse THEN ModelFns = FnsThroughFns(items[1].fn)
        ELSE ModelFns = <<items[1].fn>>

\* C13 as stated: with no name supplied, no two models of one analysis have
\* the same span name.
DefaultNamesDistinct ==
    (Analysed /\ ~NameSupplied) =>
        \A i, j \in 1..Len(models) : i # j => models[i].name # models[j].name

\* C13, amended: with no name supplied each model's span name is the
\* identifier of its own function, so two models share a span name exactly
\* when their functions have the same identifier.
SpanNamesFollowIdentifiers ==
    (Analysed /\ ~NameSupplied) =>
        /\ \A i \in 1..Len(models) : models[i].name = models[i].item_fn.sig.ident
        /\ \A i, j \in 1..Len(models) :
               models[i].name = models[j].name
                   <=> models[i].item_fn.sig.ident = models[j].item_fn.sig.ident

\* Two functions of the same name in different scopes have been analysed
\* with no name supplied, next to one of another name.
SpanNamesFollowIdentifiersWitness ==
    /\ Analysed /\ ~NameSupplied
    /\ \E i, j, k \in 1..Len(models) :
          /\ i # j /\ models[i].name = models[j].name
          /\ models[i].item_fn # models[k].item_fn /\ models[k].name # models[i].name
          /\ i > 1 /\ j > 1

\* ------------------------------------------------------------ C14 .. C18
Parsed == stage \in {"parsed", "rejected"}
Rejected(msg) == Parsed /\ ~parsed.ok /\ parsed.err = msg
Occurrences(key) == {i \in 1..Len(args) : args[i].path = key}
RecognisedKeys == {"name", "enter_on_poll"}
ProvidedTwice(key) == key \o " provided twice"

\* C14 as stated: every option list of more than two pairs is rejected with
\* the too-many-arguments error, whatever its keys and values.
MoreThanTwoIsTooMany ==
    (Parsed /\ Len(args) > 2) => Rejected(TooManyArgumentsMsg)

\* C14: the too-many-arguments error is returned exactly for the lists of
\* more than three pairs, whatever their keys and values; a list of three
\* pairs passes the arity test and is rejected by a later test, with that
\* test's error.
MoreThanThreeIsTooMany ==
    Parsed =>
       /\ Len(args) > 3 => Rejected(TooManyArgumentsMsg)
       /\ Len(args) <= 3 => parsed.err # TooManyArgumentsMsg
       /\ Len(args) = 3 => ~parsed.ok

MoreThanThreeIsTooManyWitness ==
    /\ Rejected(TooManyArgumentsMsg)
    /\ Len(args) = 4
    /\ \A i \in 1..4 : args[i].path = "level"

Repeated(key) == Cardinality(Occurrences(key)) > 1
Offending(i) ==
    \/ args[i].path \notin RecognisedKeys
    \/ \E j \in 1..(i - 1) : args[j].path = args[i].path
    \/ args[i].lit.kind # (IF args[i].path = "name" THEN "Str" ELSE "Bool")
FirstOffence == CHOOSE i \in 1..Len(args) :
                   Offending(i) /\ \A j \in 1..(i - 1) : ~Offending(j)
OffenceMsg(i) ==
    IF args[i].path \notin RecognisedKeys THEN "unknown option"
    ELSE IF \E j \in 1..(i - 1) : args[j].path = args[i].path
    THEN ProvidedTwice(args[i].path)
    ELSE IF args[i].path = "name" THEN "name value should be a string"
    ELSE "enter_on_poll value should be an boolean"

\* C15 as stated: a list of at most two pairs that repeats a recognised key
\* is rejected with the provided-twice error naming that key, whatever the
\* values and the order of the pairs.
RepeatedKeyIsNamed ==
    \A k \in RecognisedKeys :
       (Parsed /\ Len(args) <= 2 /\ Repeated(k)) => Rejected(ProvidedTwice(k))

\* C15: a list that passes the arity test and repeats a recognised key
\* produces no model; its error is the one of the first pair in list order
\* that is unknown, of the wrong kind or a repeat, so it is the
\* provided-twice error naming the key exactly when that pair is the repeat.
RepeatedKeyIsRejected ==
    \A k \in RecognisedKeys :
       (Parsed /\ Len(args) <= ParseArityLimit /\ Repeated(k)) =>
          /\ Rejected(OffenceMsg(FirstOffence))
          /\ Rejected(ProvidedTwice(k)) <=> args[FirstOffence].path = k
                                             /\ FirstOffence > 1
                                             /\ k \in {args[j].path : j \in 1..(FirstOffence - 1)}

RepeatedKeyIsRejectedWitness ==
    /\ Rejected(ProvidedTwice("name"))
    /\ Len(args) = 3
    /\ args[1].path = "name" /\ args[2].path = "name"
    /\ args[3].path = "enter_on_poll"

\* C16 as stated, for the empty list: parsing an option list that supplies
\* neither name nor enter_on_poll is rejected with the missing-both error
\* and yields no model.
EmptyListIsMissingBoth ==
    (Parsed /\ args = <<>>) => Rejected("missing both enter_on_poll and name")

\* C17 as stated: each documented option, supplied once with a value of its
\* expected kind, is accepted, and the unknown-option error is returned
\* only for keys outside the documented set.
DocumentedOptionsAccepted ==
    (Parsed /\ Len(args) = 1 /\ args[1].path \in DocumentedOptions
            /\ args[1].lit.kind = ExpectedKind(args[1].path)) =>
       parsed.ok /\ parsed.err # "unknown option"

\* C18: a successful parse returns a model with validated true and default
\* false, the supplied name and enter_on_poll values or else the sentinel
\* name and false, and the defaults of every other option; the default
\* model itself has default true and validated false.
Supplied(key) == Occurrences(key) # {}
ValueOf(key) == args[CHOOSE i \in Occurrences(key) : TRUE].lit
SuccessfulParseModel ==
    /\ TraceDefault.default /\ ~TraceDefault.validated
    /\ (Parsed /\ parsed.ok) =>
          /\ parsed.trace.validated /\ ~parsed.trace.default
          /\ parsed.trace.name =
                 (IF Supplied("name") THEN ValueOf("name").s ELSE DefaultName)
          /\ parsed.trace.enter_on_poll =
                 (IF Supplied("enter_on_poll") THEN ValueOf("enter_on_poll").b
                  ELSE FALSE)
          /\ parsed.trace.scope = Some("Local")
          /\ parsed.trace.recorder = Some("span")
          /\ parsed.trace.recurse = Some(FALSE)
          /\ parsed.trace.root = Some(FALSE)
          /\ parsed.trace.variables = Some(<<>>)
          /\ parsed.trace.async_trait = Some(FALSE)

SuccessfulParseModelWitness ==
    /\ Parsed /\ parsed.ok
    /\ Len(args) = 1 /\ args[1].path = "enter_on_poll"
    /\ parsed.trace.enter_on_poll /\ parsed.trace.name = DefaultName

\* ------------------------------------------------------------ C19 .. C20
\* The lifetime positions of a type, of a receiver and of a signature's
\* inputs in visiting order: the lifetime written there, or the elided
\* lifetime where none is written.
RECURSIVE SlotsOfType(_), SlotsOfArgs(_), SlotsOfInputs(_)
SlotsOfType(ty) ==
    CASE ty.kind = "Reference" ->
            <<IF IsSome(ty.lifetime) THEN ty.lifetime[1] ELSE ElidedLifetime>>
               \o SlotsOfType(ty.elem)
      [] ty.kind = "Path" -> SlotsOfArgs(ty.args)
      [] OTHER -> <<>>
SlotsOfArgs(gargs) ==
    IF gargs = <<>> THEN <<>>
    ELSE (IF Head(gargs).kind = "Lifetime" THEN <<Head(gargs).lifetime>>
          ELSE SlotsOfType(Head(gargs).ty)) \o SlotsOfArgs(Tail(gargs))
SlotsOfInputs(inputs) ==
    IF inputs = <<>> THEN <<>>
    ELSE (IF Head(inputs).kind = "Receiver"
          THEN IF IsNone(Head(inputs).reference) THEN <<>>
               ELSE IF IsSome(Head(inputs).reference[1])
               THEN <<Head(inputs).reference[1][1]>>
               ELSE <<ElidedLifetime>>
          ELSE SlotsOfType(Head(inputs).ty)) \o SlotsOfInputs(Tail(inputs))

\* The references of a type at any depth, and of a signature's inputs.
RECURSIVE RefsOfType(_), RefsOfArgs(_)
RefsOfType(ty) ==
    CASE ty.kind = "Reference" -> {ty} \cup RefsOfType(ty.elem)
      [] ty.kind = "Path" -> RefsOfArgs(ty.args)
      [] OTHER -> {}
RefsOfArgs(gargs) ==
    IF gargs = <<>> THEN {}
    ELSE (IF Head(gargs).kind = "Type" THEN RefsOfType(Head(gargs).ty) ELSE {})
         \cup RefsOfArgs(Tail(gargs))

Named(lt) == lt # ElidedLifetime
NamedSlots(slots) == SelectSeq(slots, Named)
ElidedCount(slots) == Len(slots) - Len(NamedSlots(slots))
LifeNames(n) == [k \in 1..n |-> "'life" \o ToString(k - 1)]
\* slots with its k-th elided lifetime, counted from zero, named life<k>.
RECURSIVE Numbered(_, _)
Numbered(slots, k) ==
    IF slots = <<>> THEN <<>>
    ELSE IF Named(Head(slots)) THEN <<Head(slots)>> \o Numbered(Tail(slots), k)
    ELSE <<"'life" \o ToString(k)>> \o Numbered(Tail(slots), k + 1)
Elements(seq) == {seq[i] : i \in 1..Len(seq)}

Resolved == resolver.runs > 0
SlotsBefore == SlotsOfInputs(resolver.before)
SlotsAfter == SlotsOfInputs(resolver.inputs)

\* C19: a run over a signature in which no elided lifetime remains mints no
\* lifetime, leaves the signature as it was and records the named lifetimes
\* written in it; every run over the result of a run is such a run, and two
\* successive runs over a signature without elided lifetimes record the
\* same explicit lifetimes.
ResolverIsIdempotent ==
    /\ (Resolved /\ ElidedCount(SlotsBefore) = 0) =>
          /\ resolver.c.elided = <<>>
          /\ resolver.inputs = resolver.before
          /\ resolver.c.explicit = SlotsBefore
    /\ resolver.runs > 1 =>
          /\ ElidedCount(SlotsBefore) = 0
          /\ resolver.prev.elided = <<>> => resolver.c.explicit = resolver.prev.explicit
          /\ Elements(resolver.c.explicit) =
                Elements(resolver.prev.explicit) \cup Elements(resolver.prev.elided)

ResolverIsIdempotentWitness ==
    /\ resolver.runs = 2
    /\ resolver.prev.elided # <<>>
    /\ resolver.prev.explicit # <<>>
    /\ resolver.c.elided = <<>>
    /\ resolver.inputs = resolver.before

\* C20: after a run every reference in every parameter type, at any depth
\* and inside generic arguments, and the receiver's reference carry a named
\* lifetime; the k-th elided lifetime in visiting order, counted from zero,
\* has become life<k>, so the minted names are life0 .. life(n-1) in order;
\* every named lifetime is left as written and is recorded.
EveryLifetimeNamed ==
    Resolved =>
       /\ \A i \in 1..Len(resolver.inputs) :
             IF resolver.inputs[i].kind = "Receiver"
             THEN IsSome(resolver.inputs[i].reference) =>
                     /\ IsSome(resolver.inputs[i].reference[1])
                     /\ Named(resolver.inputs[i].reference[1][1])
             ELSE \A r \in RefsOfType(resolver.inputs[i].ty) :
                     IsSome(r.lifetime) /\ Named(r.lifetime[1])
       /\ SlotsAfter = Numbered(SlotsBefore, 0)
       /\ resolver.c.elided = LifeNames(ElidedCount(SlotsBefore))
       /\ resolver.c.explicit = NamedSlots(SlotsBefore)
       /\ Len(resolver.inputs) = Len(resolver.before)

EveryLifetimeNamedWitness ==
    /\ resolver.runs = 1
    /\ Len(resolver.before) = 3
    /\ resolver.before[1].kind = "Receiver"
    /\ resolver.before[3].ty.kind = "Path" /\ resolver.before[3].ty.ident = "Map"
    /\ SlotsBefore = <<"'_", "'b", "'_", "'_", "'_", "'b">>
    /\ SlotsAfter = <<"'life0", "'b", "'life1", "'life2", "'life3", "'b">>
    /\ resolver.c.explicit = <<"'b", "'b">>

\* ------------------------------------------------------------ C21 .. C24
Rewritten == rewrite.done
PredicatesOf(sig) == where_clause_or_default(sig.generics.where_clause).predicates
\* The where-clause of the rewritten signature bounds subject by the tracer
\* lifetime.
OutlivesTracer(subject) ==
    \E i \in 1..Len(PredicatesOf(rewrite.out)) :
       /\ PredicatesOf(rewrite.out)[i].bounded = subject
       /\ TracerLifetime \in Elements(PredicatesOf(rewrite.out)[i].bounds)
MintedFor(sig) == LifeNames(ElidedCount(SlotsOfInputs(sig.inputs)))
RecordedExplicit(sig) == Elements(NamedSlots(SlotsOfInputs(sig.inputs)))
TypeParamsOf(sig) ==
    {sig.generics.params[i].ident :
        i \in {j \in 1..Len(sig.generics.params) : sig.generics.params[j].kind = "Type"}}
LifetimeParamsOf(sig) ==
    {sig.generics.params[i].lifetime :
        i \in {j \in 1..Len(sig.generics.params) : sig.generics.params[j].kind = "Lifetime"}}

\* C21 as stated: in the rewritten signature the tracer lifetime is the
\* first generic parameter, then the minted lifetimes in minting order, then
\* the original parameters in their order; the where-clause keeps every
\* original predicate and bounds by the tracer lifetime every type
\* parameter, every explicit lifetime the collector recorded, declared in
\* the generic list or not, and every minted lifetime.
GenericsAndBoundsOfRewrite ==
    Rewritten =>
       /\ rewrite.out.generics.params =
             <<GPLifetime(TracerLifetime)>>
                \o [k \in 1..Len(MintedFor(rewrite.sig)) |->
                       GPLifetime(MintedFor(rewrite.sig)[k])]
                \o rewrite.sig.generics.params
       /\ SubSeq(PredicatesOf(rewrite.out), 1, Len(PredicatesOf(rewrite.sig)))
             = PredicatesOf(rewrite.sig)
       /\ \A t \in TypeParamsOf(rewrite.sig) : OutlivesTracer(t)
       /\ \A l \in Elements(MintedFor(rewrite.sig)) : OutlivesTracer(l)
       /\ \A l \in RecordedExplicit(rewrite.sig) : OutlivesTracer(l)

HasReceiver(sig) ==
    sig.inputs # <<>> /\ sig.inputs[1].kind = "Receiver"
TypedSelf(sig) ==
    /\ sig.inputs # <<>> /\ sig.inputs[1].kind = "Typed"
    /\ sig.inputs[1].pat.kind = "Ident" /\ sig.inputs[1].pat.ident = "self"
SharedSelf(sig) ==
    \/ HasReceiver(sig) /\ IsSome(sig.inputs[1].reference) /\ ~sig.inputs[1].mutability
    \/ TypedSelf(sig) /\ sig.inputs[1].ty.kind = "Reference"
                      /\ ~sig.inputs[1].ty.mutability
MentionsSelf(sig) ==
    \/ \E i \in 1..Len(sig.inputs) :
          sig.inputs[i].kind = "Typed" /\ TypeHasSelf(sig.inputs[i].ty)
    \/ sig.output.kind = "Type" /\ TypeHasSelf(sig.output.ty)
SelfPredicates ==
    SelectSeq(PredicatesOf(rewrite.out), LAMBDA pr : pr.bounded = "Self")
ExpectedSelfBounds ==
    IF rewrite.is_local THEN <<TracerLifetime>>
    ELSE IF SharedSelf(rewrite.sig) THEN <<"::core::marker::Sync", TracerLifetime>>
    ELSE <<"::core::marker::Send", TracerLifetime>>

FutureOfDeclaredOutput ==
    Rewritten =>
       /\ rewrite.sig.asyncness /\ ~rewrite.out.asyncness
       /\ rewrite.out.output.kind = "Type"
       /\ rewrite.out.output.ty.kind = "ImplTrait"
       /\ rewrite.out.output.ty.trait = "::core::future::Future"
       /\ rewrite.out.output.ty.output =
             (IF rewrite.sig.output.kind = "Default" THEN TPath("()", <<>>)
              ELSE rewrite.sig.output.ty)
       /\ TracerLifetime \in Elements(rewrite.out.output.ty.bounds)
       /\ "::core::marker::Send" \in Elements(rewrite.out.output.ty.bounds)
             <=> ~rewrite.is_local
       /\ Len(rewrite.out.output.ty.bounds) = (IF rewrite.is_local THEN 1 ELSE 2)

FutureOfDeclaredOutputWitness ==
    /\ Rewritten /\ ~rewrite.is_local
    /\ rewrite.sig.output = RetType(TPath("u8", <<>>))
    /\ rewrite.out.output.ty.output = TPath("u8", <<>>)
    /\ rewrite.out.output.ty.bounds = <<"::core::marker::Send", TracerLifetime>>

ParamName(arg) == IF arg.kind = "Receiver" THEN "self" ELSE arg.pat.ident
CollectedInputs(sig) == CollectInputs(sig.inputs, CollectLifetimesNew).inputs

\* C24 as stated: in the rewritten signature a parameter with a simple
\* identifier pattern keeps its identifier without the by-reference
\* modifier, a parameter with any other pattern is bound to a positional
\* identifier distinct from every other parameter's identifier and mutable
\* exactly when the pattern bound mutably somewhere; count, order and
\* types, lifetimes apart, are as before.
ParametersNormalised ==
    Rewritten =>
       /\ Len(rewrite.out.inputs) = Len(rewrite.sig.inputs)
       /\ \A i \in 1..Len(rewrite.sig.inputs) :
             rewrite.sig.inputs[i].kind = "Typed" =>
                /\ rewrite.out.inputs[i].kind = "Typed"
                /\ rewrite.out.inputs[i].ty = CollectedInputs(rewrite.sig)[i].ty
                /\ rewrite.out.inputs[i].pat.kind = "Ident"
                /\ ~rewrite.out.inputs[i].pat.by_ref
                /\ IF rewrite.sig.inputs[i].pat.kind = "Ident"
                   THEN rewrite.out.inputs[i].pat.ident = rewrite.sig.inputs[i].pat.ident
                   ELSE /\ rewrite.out.inputs[i].pat.mutability
                              = mut_pat(rewrite.sig.inputs[i].pat)
                        /\ \A j \in 1..Len(rewrite.out.inputs) :
                              j # i => ParamName(rewrite.out.inputs[j])
                                          # rewrite.out.inputs[i].pat.ident

EmissionFrame ==
    stage = "lowered" =>
       \A i \in 1..Len(models) :
          LET f == models[i].item_fn
              q == lowered.quotes[i] IN
          /\ q.attrs = f.attrs /\ q.vis = f.vis
          /\ q.constness = f.sig.constness /\ q.unsafety = f.sig.unsafety
          /\ q.abi = f.sig.abi /\ q.ident = f.sig.ident
          /\ ~f.sig.asyncness <=>
                /\ q.gen_params = f.sig.generics.params
                /\ q.params = f.sig.inputs
                /\ q.return_type = f.sig.output
                /\ q.where_clause = f.sig.generics.where_clause

\* A public unsafe extern function with generics and a destructuring
\* parameter, whose body ends in the boxing call, has been lowered.
EmissionFrameWitness ==
    /\ stage = "lowered"
    /\ LET f == models[1].item_fn
           q == lowered.quotes[1] IN
       /\ ~f.sig.asyncness /\ BoxPinAsyncShape(f, TRUE)
       /\ q.vis = "pub" /\ q.unsafety /\ q.abi = Some("C") /\ q.attrs = <<"a">>
       /\ q.gen_params = <<GPType("T")>>
       /\ Len(q.params) = 2 /\ q.params[2].pat.kind = "Tuple"
       /\ q.func_body[1].kind = "BoxPin"

DesugaredAsync(ti) == ~ti.item_fn.sig.asyncness /\ BoxPinAsyncShape(ti.item_fn, TRUE)

\* C27 as stated: the output body of a function lowered as DesugaredAsync
\* keeps, in order, every statement of the original body before the
\* trailing boxing call and then the boxing call with its callee path, only
\* the body of the async block being replaced; no statement is dropped.
OuterBodyKept ==
    stage = "lowered" =>
       \A i \in 1..Len(models) :
          DesugaredAsync(models[i]) =>
             LET stmts == models[i].item_fn.block.stmts
                 k == LastExprStmt(stmts)
                 body == lowered.quotes[i].func_body IN
             /\ Len(body) = k
             /\ \A j \in 1..(k - 1) : body[j] = stmts[j]
             /\ body[k].kind = "BoxPin"
             /\ body[k].call = "Box::pin" => stmts[k].expr.func.path = <<"Box", "pin">>

\* The names a pattern binds, and the names the inputs of a signature bind.
RECURSIVE NamesOfPat(_)
NamesOfPat(pat) ==
    CASE pat.kind = "Ident" -> {pat.ident}
      [] pat.kind = "Tuple" -> UNION {NamesOfPat(pat.elems[j]) : j \in 1..Len(pat.elems)}
      [] OTHER -> {}
NamesBoundBy(inputs) ==
    UNION {IF inputs[j].kind = "Receiver" THEN {"self"} ELSE NamesOfPat(inputs[j].pat) :
              j \in 1..Len(inputs)}
\* The names bound by let in the emitted future before the original body.
BoundBeforeBody(body) ==
    UNION {{t.fut.tokens[j].binder :
              j \in {n \in 1..Len(t.fut.tokens) : t.fut.tokens[n].kind = "Let"}} :
           t \in {body[m] : m \in {n \in 1..Len(body) : body[n].kind = "Call"}}}

\* C28 as stated: in the output of an asynchronous function every name
\* that the original parameter patterns bound, names inside destructuring
\* patterns included, is bound where the original body runs, by a parameter
\* of the output function or by a binding placed before the body.
ParameterBindingsKept ==
    stage = "lowered" =>
       \A i \in 1..Len(models) :
          NativeAsync(models[i]) =>
             NamesBoundBy(models[i].item_fn.sig.inputs) \subseteq
                NamesBoundBy(lowered.quotes[i].params)
                   \cup BoundBeforeBody(lowered.quotes[i].func_body)

LifetimesOfGenerics(sig) ==
    SelectSeq(sig.generics.params, LAMBDA gp : gp.kind = "Lifetime")

\* C29 as stated: in a rewritten signature the lifetimes of the generic
\* parameter list are pairwise distinct, and no minted lifetime equals a
\* lifetime the user declared or used, nor the tracer lifetime.
LifetimeNamesDistinct ==
    Rewritten =>
       /\ \A i, j \in 1..Len(LifetimesOfGenerics(rewrite.out)) :
             i # j => LifetimesOfGenerics(rewrite.out)[i] # LifetimesOfGenerics(rewrite.out)[j]
       /\ \A l \in Elements(MintedFor(rewrite.sig)) :
             /\ l \notin LifetimeParamsOf(rewrite.sig)
             /\ l \notin RecordedExplicit(rewrite.sig)
             /\ l # TracerLifetime

\* The body holds a compile error, at the top or inside the boxing call.
Diagnosed(body) ==
    \/ ErrorTokens(body) # {}
    \/ \E k \in 1..Len(body) : body[k].kind = "BoxPin" /\ ErrorTokens(body[k].inner) # {}
\* The wrapper that re-enters the span named event on every poll of block.
ReenteringWrapper(block, event) ==
    [kind |-> "Call", call |-> EnterOnPollFn, event |-> event,
     fut |-> [kind |-> "Async", capture |-> TRUE,
              tokens |-> <<[kind |-> "Block", block |-> block]>>]]

\* C30: an output body holds the enter_on_poll diagnostic if and only if
\* enter_on_poll is true and the function is classified Sync; for a
\* function classified DesugaredAsync with enter_on_poll = true the body of
\* the extracted async block is wrapped by the re-entering wrapper, as the
\* whole body of a natively asynchronous function is.
DiagnosticOnlyOnSync ==
    stage = "lowered" =>
       \A i \in 1..Len(models) :
          LET ti == models[i]
              body == lowered.quotes[i].func_body IN
          /\ Diagnosed(body) <=> (ti.enter_on_poll /\ SyncInstrumented(ti))
          /\ (ti.enter_on_poll /\ DesugaredAsync(ti)) =>
                /\ Len(body) = 1 /\ body[1].kind = "BoxPin"
                /\ body[1].inner =
                      <<ReenteringWrapper(BoxedAsync(ti.item_fn).block, ti.name)>>
          /\ (ti.enter_on_poll /\ NativeAsync(ti)) =>
                body = <<ReenteringWrapper(ti.item_fn.block, ti.name)>>

DiagnosticOnlyOnSyncWitness ==
    /\ stage = "lowered"
    /\ models[1].enter_on_poll /\ DesugaredAsync(models[1])
    /\ lowered.quotes[1].func_body[1].inner[1].call = EnterOnPollFn

====
